---- MODULE Spec2Model ----
(***************************************************************************)
(* Model of read_parquet.py: a command-line script that prints the schema  *)
(* of a Parquet file (pyarrow) and its first num_rows rows (Polars).       *)
(*                                                                         *)
(* The script is sequential.  Its state is the position in the script      *)
(* (pc), the parsed arguments, the height of the batch that was read, what *)
(* has been written to the two console streams, the exception in flight    *)
(* and the process exit status.  The command line (argv) and the answers   *)
(* of the outside world (env: whether the libraries import, what each of   *)
(* the three reader calls does, how many rows the file holds) are fixed    *)
(* when the process starts and never change.                               *)
(*                                                                         *)
(* Console writes are taken to succeed; the one thing print() can raise in *)
(* the model is the rendering of the reader's own objects (print(schema),  *)
(* print(df_first_rows)), which is library code.                           *)
(***************************************************************************)
EXTENDS Integers, Sequences, FiniteSets, TLC

VARIABLES argv, env, pc, file_path, num_rows, height, stdout, stderr, exitCode, exc, reads

vars == <<argv, env, pc, file_path, num_rows, height, stdout, stderr, exitCode, exc, reads>>

(***************************************************************************)
(* Bounds of the model.                                                    *)
(***************************************************************************)
\* Largest number of rows a file holds (and largest total the metadata reports).
MaxRows == 3
\* Largest row count given on the command line with -n.
MaxCount == 3

(***************************************************************************)
(* Program constants.                                                      *)
(***************************************************************************)
\* Line 7 with another default.
DEFAULT_NUM_ROWS_off == 3 - 1

\* Line 7.
DEFAULT_NUM_ROWS == 3

\* Exit status of a process that has not exited yet.
Running == 0 - 1

Min(a, b) == IF a <= b THEN a ELSE b

(***************************************************************************)
(* Console lines.  A line is a record: its tag names the print statement   *)
(* that wrote it, the other fields are the values interpolated into it.    *)
(***************************************************************************)
Line(tag, path, n, e) == [tag |-> tag, path |-> path, n |-> n, exc |-> e]

Dash == Line("dash", "", 0, "")

(***************************************************************************)
(* Exception classes: the classes the except clauses name, and the classes *)
(* the readers raise, with their base classes.                             *)
(***************************************************************************)
Base(cls) ==
  CASE cls = "FileNotFoundError"   -> "OSError"
    [] cls = "ModuleNotFoundError" -> "ImportError"
    [] cls = "ComputeError"        -> "PolarsError"
    [] cls = "NoDataError"         -> "PolarsError"
    [] cls = "ArrowInvalid"        -> "ValueError"
    [] cls = "UnicodeEncodeError"  -> "ValueError"
    [] OTHER                       -> "Exception"

RECURSIVE isinstance(_, _)
isinstance(e, cls) ==
  IF e = cls THEN TRUE
  ELSE IF e = "Exception" THEN FALSE
  ELSE isinstance(Base(e), cls)

(***************************************************************************)
(* The command line.  path and n are optional: <<>> when absent, a         *)
(* one-element sequence when given.  The value of -n is the text typed, a  *)
(* sequence of characters, which argparse converts with int().             *)
(***************************************************************************)
DigitChar(d) ==
  CASE d = 0 -> "0" [] d = 1 -> "1" [] d = 2 -> "2" [] d = 3 -> "3" [] d = 4 -> "4"
    [] d = 5 -> "5" [] d = 6 -> "6" [] d = 7 -> "7" [] d = 8 -> "8" [] d = 9 -> "9"

DigitValue(c) ==
  CASE c = "0" -> 0 [] c = "1" -> 1 [] c = "2" -> 2 [] c = "3" -> 3 [] c = "4" -> 4
    [] c = "5" -> 5 [] c = "6" -> 6 [] c = "7" -> 7 [] c = "8" -> 8 [] c = "9" -> 9
    [] OTHER -> 0 - 1

AllDigits(t) == Len(t) > 0 /\ \A i \in 1..Len(t) : DigitValue(t[i]) >= 0

RECURSIVE Magnitude(_)
Magnitude(t) ==
  IF Len(t) = 0 THEN 0
  ELSE 10 * Magnitude(SubSeq(t, 1, Len(t) - 1)) + DigitValue(t[Len(t)])

HasSign(t) == Len(t) > 0 /\ t[1] \in {"-", "+"}

\* int(text) succeeds: an optional sign followed by decimal digits.
int_ok(t) == AllDigits(IF HasSign(t) THEN Tail(t) ELSE t)

\* int(text), for a text int() accepts.
int(t) ==
  IF HasSign(t)
  THEN (IF t[1] = "-" THEN 0 - Magnitude(Tail(t)) ELSE Magnitude(Tail(t)))
  ELSE Magnitude(t)

CountTexts == {<<DigitChar(d)>> : d \in 0..MaxCount} \cup {<<"-", "1">>, <<"a", "b", "c">>}

Argv ==
  [help : {FALSE}, path : {<<>>, <<"data.parquet">>}, n : {<<>>} \cup {<<t>> : t \in CountTexts}]
  \cup [help : {TRUE}, path : {<<>>, <<"data.parquet">>}, n : {<<>>}]

\* parse_args() returns a namespace instead of exiting.
Parses(a) == ~a.help /\ a.path # <<>> /\ (a.n # <<>> => int_ok(a.n[1]))

(***************************************************************************)
(* The outside world.  Each reader call either succeeds ("ok") or raises   *)
(* the exception class named, at the stage named.                          *)
(***************************************************************************)
Ok == [stage |-> "ok", exc |-> ""]

Raises(stage, e) == [stage |-> stage, exc |-> e]

SchemaOutcomes ==
  {Ok, Raises("ParquetFile", "FileNotFoundError"), Raises("ParquetFile", "ArrowInvalid"),
   Raises("schema_arrow", "ArrowInvalid"), Raises("print", "UnicodeEncodeError")}

RowOutcomes ==
  {Ok} \cup {Raises("read_parquet", e) :
               e \in {"FileNotFoundError", "ComputeError", "NoDataError",
                      "ModuleNotFoundError", "ImportError", "OSError"}}
       \cup {Raises("print", "UnicodeEncodeError")}

MetaOutcomes == {Ok, Raises("read_metadata", "FileNotFoundError"), Raises("read_metadata", "ArrowInvalid")}

\* What read_parquet does with a negative n_rows is the library's business:
\* it raises (NegRaises) or returns the first negRows rows of the file.
NegRaises == 0 - 1

Env ==
  [libs : BOOLEAN, schema : SchemaOutcomes, row : RowOutcomes, rows : 0..MaxRows,
   meta : MetaOutcomes, metaRows : 0..MaxRows, negRows : {NegRaises, 0, MaxRows}]

\* The world in which every call succeeds on an empty file.
Quiet ==
  [libs |-> TRUE, schema |-> Ok, row |-> Ok, rows |-> 0, meta |-> Ok, metaRows |-> 0,
   negRows |-> NegRaises]

\* Parts of the world the run never consults are left at their Quiet value.
Consulted(a, e) ==
  /\ (~e.libs \/ ~Parses(a)) => e = [Quiet EXCEPT !.libs = e.libs]
  /\ (e.meta # Ok) => e.metaRows = 0
  /\ (Parses(a) /\ (a.n = <<>> \/ int(a.n[1]) >= 0)) => e.negRows = NegRaises

(***************************************************************************)
(* The program state as one record, and the steps of the script as         *)
(* functions from state to state.                                          *)
(***************************************************************************)
State ==
  [pc |-> pc, file_path |-> file_path, num_rows |-> num_rows, height |-> height,
   stdout |-> stdout, stderr |-> stderr, exitCode |-> exitCode, exc |-> exc, reads |-> reads]

Start ==
  [pc |-> "load", file_path |-> "", num_rows |-> 0, height |-> 0, stdout |-> <<>>,
   stderr |-> <<>>, exitCode |-> Running, exc |-> "", reads |-> <<>>]

Exit(s, code) == [s EXCEPT !.pc = "exit", !.exitCode = code]

\* Lines 1-4: the imports, outside any try.  A missing library is an
\* uncaught ModuleNotFoundError: the interpreter prints the traceback
\* and exits with status 1.
module_imports(s, e) ==
  IF e.libs
  THEN [s EXCEPT !.pc = "parse"]
  ELSE Exit([s EXCEPT !.stderr = Append(@, Line("traceback", "", 0, "ModuleNotFoundError"))], 1)

\* Lines 91-113: argparse.  -h prints the help (with the default of
\* --num_rows) and exits 0; a missing file_path or a value of -n that
\* int() rejects prints the usage and an error and exits 2.
parse_args(s, a) ==
  IF a.help
  THEN Exit([s EXCEPT !.stdout = Append(@, Line("help", "", DEFAULT_NUM_ROWS, ""))], 0)
  ELSE IF a.n # <<>> /\ ~int_ok(a.n[1])
  THEN Exit([s EXCEPT !.stderr = @ \o <<Line("usage", "", 0, ""),
                                          Line("error_invalid_int", "", 0, "")>>], 2)
  ELSE IF a.path = <<>>
  THEN Exit([s EXCEPT !.stderr = @ \o <<Line("usage", "", 0, ""),
                                          Line("error_required", "", 0, "")>>], 2)
  ELSE [s EXCEPT !.pc = "schema_header",
                 !.file_path = a.path[1],
                 !.num_rows = IF a.n = <<>> THEN DEFAULT_NUM_ROWS ELSE int(a.n[1])]

\* Lines 23-25.
schema_header(s) ==
  [s EXCEPT !.pc = "schema_read",
            !.stdout = @ \o <<Dash, Line("schema_header", s.file_path, 0, ""), Dash>>]

\* Line 31 as a narrower clause: except OSError.
schema_caught_narrow(e) == isinstance(e, "OSError")

\* Line 31: except Exception as e_schema.
schema_caught(e) == isinstance(e, "Exception")

\* Lines 26-33: the inner try.  Any Exception raised by ParquetFile,
\* schema_arrow or print(schema) is caught and reported on standard output.
schema_read(s, e) ==
  LET called == [s EXCEPT !.pc = "schema_close", !.reads = Append(@, "ParquetFile")]
  IN  IF e.schema = Ok
      THEN [called EXCEPT !.stdout = Append(@, Line("schema", s.file_path, 0, ""))]
      ELSE IF schema_caught(e.schema.exc)
      THEN [called EXCEPT !.stdout = @ \o <<Line("schema_warning", "", 0, e.schema.exc),
                                            Line("schema_proceed", "", 0, "")>>]
      ELSE [called EXCEPT !.pc = "except", !.exc = e.schema.exc]

\* Lines 34-35.
schema_close(s) ==
  [s EXCEPT !.pc = "rows_header", !.stdout = @ \o <<Dash, Line("blank", "", 0, "")>>]

\* Lines 38-40.
rows_header(s) ==
  [s EXCEPT !.pc = "row_read",
            !.stdout = @ \o <<Dash, Line("rows_header", s.file_path, s.num_rows, ""), Dash>>]

\* Height of the batch pl.read_parquet(file_path, n_rows=k) returns from a
\* file of e.rows rows.
batch_height(k, e) == IF k >= 0 THEN Min(k, e.rows) ELSE Min(e.negRows, e.rows)

\* Line 43.
row_read(s, e) ==
  LET called == [s EXCEPT !.reads = Append(@, "read_parquet")]
  IN  IF e.row.stage = "read_parquet"
      THEN [called EXCEPT !.pc = "except", !.exc = e.row.exc]
      ELSE IF s.num_rows < 0 /\ e.negRows = NegRaises
      THEN [called EXCEPT !.pc = "except", !.exc = "OverflowError"]
      ELSE [called EXCEPT !.pc = "print_rows", !.height = batch_height(s.num_rows, e)]

\* Line 46.
print_rows(s, e) ==
  IF e.row.stage = "print"
  THEN [s EXCEPT !.pc = "except", !.exc = e.row.exc]
  ELSE [s EXCEPT !.pc = "check_empty", !.stdout = Append(@, Line("df", "", s.height, ""))]

\* Lines 49-59 with the guard of line 49 written with "or".
check_empty_or(s, e) ==
  LET next == [s EXCEPT !.pc = "close"]
  IN  IF s.height = 0 \/ s.num_rows > 0
      THEN LET called == [next EXCEPT !.reads = Append(@, "read_metadata")]
           IN  IF e.meta = Ok
               THEN IF e.metaRows = 0
                    THEN [called EXCEPT !.stdout = Append(@, Line("note_empty", "", 0, ""))]
                    ELSE [called EXCEPT !.stdout = Append(@, Line("note_read", "", s.height, ""))]
               ELSE [called EXCEPT !.stdout = Append(@, Line("note_read_no_metadata", "", 0, ""))]
      ELSE next

\* Lines 49-59 without the inner try of lines 50 and 58: a failure of
\* read_metadata reaches the outer handlers.
check_empty_uncaught(s, e) ==
  LET next == [s EXCEPT !.pc = "close"]
  IN  IF s.height = 0 /\ s.num_rows > 0
      THEN LET called == [next EXCEPT !.reads = Append(@, "read_metadata")]
           IN  IF e.meta = Ok
               THEN IF e.metaRows = 0
                    THEN [called EXCEPT !.stdout = Append(@, Line("note_empty", "", 0, ""))]
                    ELSE [called EXCEPT !.stdout = Append(@, Line("note_read", "", s.height, ""))]
               ELSE [called EXCEPT !.pc = "except", !.exc = e.meta.exc]
      ELSE next

\* Lines 49-59.
check_empty(s, e) ==
  LET next == [s EXCEPT !.pc = "close"]
  IN  IF s.height = 0 /\ s.num_rows > 0
      THEN LET called == [next EXCEPT !.reads = Append(@, "read_metadata")]
           IN  IF e.meta = Ok
               THEN IF e.metaRows = 0
                    THEN [called EXCEPT !.stdout = Append(@, Line("note_empty", "", 0, ""))]
                    ELSE [called EXCEPT !.stdout = Append(@, Line("note_read", "", s.height, ""))]
               ELSE [called EXCEPT !.stdout = Append(@, Line("note_read_no_metadata", "", 0, ""))]
      ELSE next

\* Line 62, then the function returns and the script ends: exit status 0.
close(s) == Exit([s EXCEPT !.stdout = Append(@, Dash)], 0)

\* Lines 64-82 matching the class of e exactly, subclasses not included.
except_clause_exact(e) ==
  IF e = "FileNotFoundError" THEN "FileNotFoundError"
  ELSE IF e = "ComputeError" THEN "ComputeError"
  ELSE IF e = "NoDataError" THEN "NoDataError"
  ELSE IF e = "ImportError" THEN "ImportError"
  ELSE "Exception"

\* Lines 64-82: the except clause that handles an exception of class e,
\* the first one in source order whose class e is an instance of.
except_clause(e) ==
  IF isinstance(e, "FileNotFoundError") THEN "FileNotFoundError"
  ELSE IF isinstance(e, "ComputeError") THEN "ComputeError"
  ELSE IF isinstance(e, "NoDataError") THEN "NoDataError"
  ELSE IF isinstance(e, "ImportError") THEN "ImportError"
  ELSE "Exception"

\* Lines 64-86: what the handling clause writes to the error stream.
diagnostic(clause, s) ==
  CASE clause = "FileNotFoundError" -> <<Line("error_file_not_found", s.file_path, 0, "")>>
    [] clause = "ComputeError"      -> <<Line("polars_compute_error", "", 0, s.exc)>>
    [] clause = "NoDataError"       -> <<Line("error_no_data", s.file_path, 0, "")>>
    [] clause = "ImportError"       -> <<Line("error_libraries", "", 0, ""),
                                         Line("run_pip_install", "", 0, "")>>
    [] OTHER                        -> <<Line("unexpected_error", "", 0, s.exc)>>

\* Lines 64-86 without file=sys.stderr.
handle_stdout(s) == Exit([s EXCEPT !.stdout = @ \o diagnostic(except_clause(s.exc), s)], 1)

\* Lines 64-86 without sys.exit(1): the function returns and the script ends.
handle_no_exit(s) == Exit([s EXCEPT !.stderr = @ \o diagnostic(except_clause(s.exc), s)], 0)

\* Lines 64-86 with the closing delimiter of line 62 printed on the way out.
handle_closing(s) ==
  Exit([s EXCEPT !.stderr = @ \o diagnostic(except_clause(s.exc), s),
                 !.stdout = Append(@, Dash)], 1)

\* Lines 64-86: print the diagnostic to sys.stderr, then sys.exit(1).
handle(s) == Exit([s EXCEPT !.stderr = @ \o diagnostic(except_clause(s.exc), s)], 1)

\* The step the script takes from state s.
Step(s, a, e) ==
  CASE s.pc = "load"          -> module_imports(s, e)
    [] s.pc = "parse"         -> parse_args(s, a)
    [] s.pc = "schema_header" -> schema_header(s)
    [] s.pc = "schema_read"   -> schema_read(s, e)
    [] s.pc = "schema_close"  -> schema_close(s)
    [] s.pc = "rows_header"   -> rows_header(s)
    [] s.pc = "row_read"      -> row_read(s, e)
    [] s.pc = "print_rows"    -> print_rows(s, e)
    [] s.pc = "check_empty"   -> check_empty(s, e)
    [] s.pc = "close"         -> close(s)
    [] s.pc = "except"        -> handle(s)
    [] OTHER                  -> s

\* The state in which the process started with command line a in world e exits.
RECURSIVE RunFrom(_, _, _)
RunFrom(s, a, e) == IF s.pc = "exit" THEN s ELSE RunFrom(Step(s, a, e), a, e)

Run(a, e) == RunFrom(Start, a, e)

(***************************************************************************)
(* The state machine.                                                      *)
(***************************************************************************)
Becomes(s) ==
  /\ pc' = s.pc
  /\ file_path' = s.file_path
  /\ num_rows' = s.num_rows
  /\ height' = s.height
  /\ stdout' = s.stdout
  /\ stderr' = s.stderr
  /\ exitCode' = s.exitCode
  /\ exc' = s.exc
  /\ reads' = s.reads
  /\ UNCHANGED <<argv, env>>

Init ==
  /\ argv \in Argv
  /\ env \in Env
  /\ Consulted(argv, env)
  /\ pc = Start.pc
  /\ file_path = Start.file_path
  /\ num_rows = Start.num_rows
  /\ height = Start.height
  /\ stdout = Start.stdout
  /\ stderr = Start.stderr
  /\ exitCode = Start.exitCode
  /\ exc = Start.exc
  /\ reads = Start.reads

ModuleImports == pc = "load" /\ Becomes(module_imports(State, env))

ParseArgs == pc = "parse" /\ Becomes(parse_args(State, argv))

SchemaHeader == pc = "schema_header" /\ Becomes(schema_header(State))

SchemaRead == pc = "schema_read" /\ Becomes(schema_read(State, env))

SchemaClose == pc = "schema_close" /\ Becomes(schema_close(State))

RowsHeader == pc = "rows_header" /\ Becomes(rows_header(State))

RowRead == pc = "row_read" /\ Becomes(row_read(State, env))

PrintRows == pc = "print_rows" /\ Becomes(print_rows(State, env))

CheckEmpty == pc = "check_empty" /\ Becomes(check_empty(State, env))

Close == pc = "close" /\ Becomes(close(State))

Handle == pc = "except" /\ Becomes(handle(State))

Next ==
  \/ ModuleImports
  \/ ParseArgs
  \/ SchemaHeader
  \/ SchemaRead
  \/ SchemaClose
  \/ RowsHeader
  \/ RowRead
  \/ PrintRows
  \/ CheckEmpty
  \/ Close
  \/ Handle

Spec == Init /\ [][Next]_vars

\* The interpreter runs the script to its end: a step that can be taken is taken.
LiveSpec == Spec /\ WF_vars(Next)

(***************************************************************************)
(* Vocabulary of the properties.                                           *)
(***************************************************************************)
Done == pc = "exit"

\* The libraries imported and argparse returned: read_parquet_info_polars ran.
Entered == env.libs /\ Parses(argv)

Has(lines, tag) == \E i \in 1..Len(lines) : lines[i].tag = tag

Tags(lines) == [i \in 1..Len(lines) |-> lines[i].tag]

\* The reader call named was made.
Called(name) == \E i \in 1..Len(reads) : reads[i] = name

IsPrefix(u, v) == Len(u) <= Len(v) /\ SubSeq(v, 1, Len(u)) = u

IsNote(l) == l.tag \in {"note_empty", "note_read", "note_read_no_metadata"}

Notes(lines) == SelectSeq(lines, IsNote)

IsBatch(l) == l.tag = "df"

Batches(lines) == SelectSeq(lines, IsBatch)

DiagnosticTags ==
  {"error_file_not_found", "polars_compute_error", "error_no_data", "error_libraries",
   "run_pip_install", "unexpected_error", "traceback", "usage", "error_invalid_int",
   "error_required"}

\* The row step (read_parquet, then the printing of the batch) goes through.
RowsSucceed == env.row = Ok /\ (num_rows >= 0 \/ env.negRows # NegRaises)

\* The schema block of a run whose schema read failed, as standard output shows it.
WarnedSchemaBlock ==
  <<Dash, Line("schema_header", file_path, 0, ""), Dash,
    Line("schema_warning", "", 0, env.schema.exc), Line("schema_proceed", "", 0, ""),
    Dash, Line("blank", "", 0, "")>>

RowsHeaderBlock == <<Dash, Line("rows_header", file_path, num_rows, ""), Dash>>

\* The rows block was printed through its closing delimiter.
RowsBlockClosed ==
  /\ Len(stdout) > 0
  /\ stdout[Len(stdout)] = Dash
  /\ Has(stdout, "rows_header")
  /\ Has(stdout, "df")

(***************************************************************************)
(* The claims.                                                             *)
(***************************************************************************)

\* C1: a failure of the schema read (ParquetFile, schema_arrow or the
\* printing of the schema), whatever its kind, is not fatal: the warning
\* with the failure's reason is printed, the schema block is closed, the
\* row read is attempted, and the exit code is 0 if the row step goes
\* through and 1 if it fails.
C1_SchemaFailureNotFatal ==
  (Done /\ Entered /\ env.schema # Ok) =>
     /\ IsPrefix(WarnedSchemaBlock, stdout)
     /\ ~Has(stdout, "schema")
     /\ IsPrefix(<<"ParquetFile", "read_parquet">>, reads)
     /\ exitCode = (IF RowsSucceed THEN 0 ELSE 1)

C1_Witness ==
  /\ Done /\ Entered
  /\ env.schema = Raises("schema_arrow", "ArrowInvalid")
  /\ env.row = Ok
  /\ exitCode = 0
  /\ Has(stdout, "schema_warning")

\* C2: for a valid file of m rows and a requested count k > 0 the program
\* exits 0 and prints a batch of exactly min(k, m) rows, and prints no
\* note when m > 0.
C2_PrintsMinRows ==
  (Done /\ Entered /\ env.schema = Ok /\ env.row = Ok /\ num_rows > 0) =>
     /\ exitCode = 0
     /\ Batches(stdout) = <<Line("df", "", Min(num_rows, env.rows), "")>>
     /\ (env.rows > 0 => Notes(stdout) = <<>>)

C2_Witness ==
  /\ Done /\ Entered /\ env.schema = Ok /\ env.row = Ok
  /\ num_rows = 3 /\ env.rows = 2
  /\ Has(stdout, "df") /\ height = 2 /\ exitCode = 0

\* C3: when the row read returns no rows for a requested count > 0, the
\* program exits 0 and prints exactly one note: the empty-file note if and
\* only if the metadata read succeeds and reports zero rows, otherwise a
\* note that 0 rows were read; a failing metadata read is never fatal.
C3_NoteChosenByMetadata ==
  (Done /\ Entered /\ env.row = Ok /\ num_rows > 0 /\ Has(stdout, "df") /\ height = 0) =>
     /\ exitCode = 0
     /\ stderr = <<>>
     /\ Len(Notes(stdout)) = 1
     /\ (Notes(stdout)[1].tag = "note_empty" <=> (env.meta = Ok /\ env.metaRows = 0))
     /\ (Notes(stdout)[1].tag # "note_empty" =>
           /\ Notes(stdout)[1].n = 0
           /\ Notes(stdout)[1].tag = (IF env.meta = Ok THEN "note_read"
                                      ELSE "note_read_no_metadata"))

C3_Witness ==
  /\ Done /\ Entered /\ env.row = Ok /\ num_rows > 0 /\ height = 0
  /\ env.meta = Raises("read_metadata", "ArrowInvalid")
  /\ Has(stdout, "note_read_no_metadata")
  /\ exitCode = 0

\* C4: for num_rows = 0 on a readable file the program exits 0, prints a
\* note reporting that 0 rows were read and does not print the empty-file
\* note.
C4_ZeroCountReportsRowsRead ==
  (Done /\ Entered /\ env.row = Ok /\ num_rows = 0) =>
     /\ exitCode = 0
     /\ ~Has(stdout, "note_empty")
     /\ \E i \in 1..Len(stdout) :
          stdout[i].tag \in {"note_read", "note_read_no_metadata"} /\ stdout[i].n = 0

\* C5: for a file that does not exist (the schema read and the row read
\* both raise FileNotFoundError) the program exits 1, writes the
\* file-not-found message with the path to the error stream, and standard
\* output holds the schema block with its warning and the rows header and
\* nothing else: no schema, no batch.
C5_FileNotFound ==
  (Done /\ Entered /\ env.schema = Raises("ParquetFile", "FileNotFoundError")
        /\ env.row = Raises("read_parquet", "FileNotFoundError")) =>
     /\ exitCode = 1
     /\ stderr = <<Line("error_file_not_found", argv.path[1], 0, "")>>
     /\ stdout = WarnedSchemaBlock \o RowsHeaderBlock
     /\ ~Has(stdout, "schema") /\ ~Has(stdout, "df")

C5_Witness ==
  /\ Done /\ Entered
  /\ env.schema = Raises("ParquetFile", "FileNotFoundError")
  /\ env.row = Raises("read_parquet", "FileNotFoundError")
  /\ Has(stderr, "error_file_not_found")

\* The row of the failure table an exception class belongs to, by the
\* label of its diagnostic.
TableRow(e) ==
  CASE e = "FileNotFoundError"                    -> "error_file_not_found"
    [] e = "ComputeError"                         -> "polars_compute_error"
    [] e = "NoDataError"                          -> "error_no_data"
    [] e \in {"ImportError", "ModuleNotFoundError"} -> "error_libraries"
    [] OTHER                                      -> "unexpected_error"


\* A failure was raised at the row read or after it: by read_parquet or by
\* the printing of the batch (exc), or by read_metadata.
FailedFromRowRead == exc # "" \/ (Called("read_metadata") /\ env.meta # Ok)

\* C6 as stated: every failure raised from the row read onward falls in
\* exactly one row of the failure table, writes that row's one-line
\* diagnostic to the error stream and not to standard output, and ends
\* with exit code 1.
C6_EveryFailureOneLineFatal ==
  (Done /\ Entered /\ FailedFromRowRead) =>
     /\ exitCode = 1
     /\ Len(stderr) = 1
     /\ stderr[1].tag = TableRow(exc)
     /\ \A i \in 1..Len(stdout) : stdout[i].tag \notin DiagnosticTags

\* C6 as amended: a failure of read_metadata is caught and ends in a note
\* and exit code 0; every other failure raised from the row read onward
\* falls in exactly one row of the failure table, writes that row's
\* diagnostic (one line; two lines for the missing-library row) to the
\* error stream and not to standard output, and ends with exit code 1; a
\* compute error or a generic error of the row reader never ends in exit
\* code 0.
C6_EscapingFailureClassified ==
  (Done /\ Entered) =>
     /\ (exc # "" =>
           /\ exitCode = 1
           /\ Len(stderr) = (IF TableRow(exc) = "error_libraries" THEN 2 ELSE 1)
           /\ stderr[1].tag = TableRow(exc)
           /\ (Len(stderr) = 2 => stderr[2].tag = "run_pip_install")
           /\ (stderr[1].tag \in {"polars_compute_error", "unexpected_error"}
                 => stderr[1].exc = exc)
           /\ (stderr[1].tag \in {"error_file_not_found", "error_no_data"}
                 => stderr[1].path = argv.path[1])
           /\ \A i \in 1..Len(stdout) : stdout[i].tag \notin DiagnosticTags)
     /\ (env.row.exc \in {"ComputeError", "OSError", "UnicodeEncodeError"} =>
           (exitCode = 1 /\ stderr[1].tag \in {"polars_compute_error", "unexpected_error"}))
     /\ ((exc = "" /\ Called("read_metadata") /\ env.meta # Ok) =>
           exitCode = 0 /\ stderr = <<>> /\ Has(stdout, "note_read_no_metadata"))

C6_Witness ==
  /\ Done /\ Entered
  /\ env.row = Raises("read_parquet", "ModuleNotFoundError")
  /\ exc = "ModuleNotFoundError"
  /\ Has(stderr, "run_pip_install")

\* C7: when a required library is unavailable, wherever that is detected
\* (at the imports of the module or inside read_parquet_info_polars), the
\* program prints the instruction to install the dependencies to the error
\* stream and exits 1, and the failure does not surface as an uncaught
\* exception.
C7_MissingLibraryInstruction ==
  (Done /\ (~env.libs \/ isinstance(exc, "ImportError"))) =>
     /\ exitCode = 1
     /\ Has(stderr, "error_libraries")
     /\ Has(stderr, "run_pip_install")
     /\ ~Has(stderr, "traceback")

\* C8 as stated: every invocation, whatever the command line, ends with
\* exit code 0 or 1: 0 exactly when the rows block was printed through
\* its closing delimiter.
C8_ExitZeroOrOne ==
  Done => (exitCode \in {0, 1} /\ (exitCode = 0 <=> RowsBlockClosed))

\* What an exited process shows, by command line.
ExitCodesByCommandLine ==
  Done =>
     /\ exitCode \in {0, 1, 2}
     /\ ((~env.libs \/ Parses(argv)) =>
           (exitCode \in {0, 1} /\ (exitCode = 0 <=> RowsBlockClosed)))
     /\ ((env.libs /\ argv.help) =>
           (exitCode = 0 /\ ~RowsBlockClosed /\ Tags(stdout) = <<"help">>))
     /\ ((env.libs /\ ~argv.help /\ ~Parses(argv)) =>
           (exitCode = 2 /\ stdout = <<>> /\ Has(stderr, "usage")))
     /\ (exitCode = 1 => stderr # <<>>)

\* C8 as amended: every invocation terminates.  One whose libraries fail
\* to import or whose command line argparse accepts ends with exit code 0
\* or 1: 0 exactly when the rows block was printed through its closing
\* delimiter, 1 for every fatal condition.  With the libraries in place,
\* -h ends with exit code 0 after the help text alone, and a command line
\* argparse rejects (no file_path, a value of -n that is no integer) ends
\* with exit code 2 and nothing on standard output.
C8_ExitCodes == []ExitCodesByCommandLine /\ <>Done

C8_Witness ==
  /\ Done /\ env.libs /\ argv.n = <<<<"a", "b", "c">>>> /\ exitCode = 2

\* What the process leaves behind when it exits.
Outcome(s) == <<s.stdout, s.stderr, s.exitCode>>

\* C9: omitting -n/--num_rows is the same as passing --num_rows 3: in the
\* same world the two invocations end with the same standard output, the
\* same error stream and the same exit code.
C9_DefaultIsThree ==
  (Done /\ argv.n = <<>>) =>
     Outcome(State) = Outcome(Run([argv EXCEPT !.n = <<<<"3">>>>], env))

C9_Witness ==
  /\ Done /\ Entered /\ argv.n = <<>>
  /\ env.rows = 3 /\ height = 3 /\ exitCode = 0
  /\ Has(stdout, "df")

\* The standard output of a run that ended in one of the outer handlers:
\* the complete schema block and the rows header, the batch if it was
\* printed, and nothing after.
FatalOutput ==
  /\ \/ Tags(stdout) = <<"dash", "schema_header", "dash", "schema", "dash", "blank",
                         "dash", "rows_header", "dash">>
     \/ Tags(stdout) = <<"dash", "schema_header", "dash", "schema_warning",
                         "schema_proceed", "dash", "blank", "dash", "rows_header", "dash">>
  /\ stdout[Len(stdout) - 1] = Line("rows_header", file_path, num_rows, "")

\* One report of one fatal condition on the error stream.
ReportedOnce ==
  /\ Len(stderr) \in {1, 2}
  /\ stderr[1].tag \in DiagnosticTags \ {"run_pip_install"}
  /\ (Len(stderr) = 2 => Tags(stderr) = <<"error_libraries", "run_pip_install">>)

FatalRunAtExit ==
  (Done /\ exitCode = 1) =>
     /\ ReportedOnce
     /\ Len(reads) <= 2
     /\ \A i, j \in 1..Len(reads) : reads[i] = reads[j] => i = j
     /\ (Entered => (FatalOutput /\ reads = <<"ParquetFile", "read_parquet">>))
     /\ (~Entered => stdout = <<>>)

FatalRunStep ==
  /\ IsPrefix(stdout, stdout')
  /\ IsPrefix(stderr, stderr')
  /\ IsPrefix(reads, reads')
  /\ (stderr' # stderr => (pc' = "exit" /\ stdout' = stdout /\ reads' = reads))

\* C10: a fatal condition is reported once and ends the process at once:
\* the step that writes the diagnostic is the last one, writes nothing to
\* standard output and reads nothing; no reader call is made twice; what
\* was printed before stays (the complete schema block and the rows
\* header), and neither a note nor the closing delimiter follows.
C10_FatalReportedOnce == []FatalRunAtExit /\ [][FatalRunStep]_vars

C10_Witness ==
  /\ Done /\ Entered /\ exitCode = 1
  /\ env.row = Raises("print", "UnicodeEncodeError")
  /\ Has(stderr, "unexpected_error")

====
